---- MODULE Spec2Model ----
(***************************************************************************)
(* Model of the library-lending backend: the user, category and loan       *)
(* route handlers of routes/route_user.py, routes/route_category.py and    *)
(* routes/route_loan.py over the relational store.                         *)
(*                                                                         *)
(* One action per handler; each action is the whole request, from the      *)
(* authorization check to the commit, and leaves the answer in resp.       *)
(* Primary keys come from per-table counters and are never reused.         *)
(* The SQL NULL / Python None of an integer column or argument is 0.       *)
(***************************************************************************)
EXTENDS Integers, FiniteSets, Sequences, TLC

\* ---------------------------------------------------------------- bounds
MaxUsers == 2
MaxEbooks == 2
MaxCopies == 2
MaxLoans == 2
MaxCategories == 1
MaxTime == 1

\* ------------------------------------------------------- program constants
LoanPeriodDays == 14

\* ------------------------------------------------------------ input sets
UserIds == 1..MaxUsers
EbookIds == 1..MaxEbooks
LoanIds == 1..MaxLoans
CategoryIds == 1..MaxCategories
Times == 1..MaxTime
Usernames == {"ann"}
EmailPool == <<"a@x", "b@x", "c@x", "d@x">>
Emails == {EmailPool[i] : i \in 1..MaxUsers}
Passwords == {"pw"}
CategoryNames == {"Fiction"}
Descriptions == {"d"}

VARIABLES
    users,        \* table user: id -> [username, email, password, is_admin]
    ebooks,       \* table ebook: id -> [available_copies]
    loans,        \* table loan: id -> [user_id, ebook_id, loan_date, due_date, return_date, is_returned]
    categories,   \* table category: id -> [name, description]
    nextUserId,   \* next primary key of table user
    nextLoanId,   \* next primary key of table loan
    nextCategoryId, \* next primary key of table category
    tokens,       \* identities for which login has issued a bearer token
    resp,         \* the answer to the latest request
    sessions,     \* per worker: the ORM session of a request in flight
    ebooks0       \* history: table ebook as it was when the workers started

vars == <<users, ebooks, loans, categories, nextUserId, nextLoanId,
          nextCategoryId, tokens, resp, sessions, ebooks0>>

\* ---------------------------------------------------------------- helpers
Empty == [k \in {} |-> 0]

\* dict.get(key, default)
Get(data, key, default) == IF key \in DOMAIN data THEN data[key] ELSE default

\* Python truthiness of data.get(key) for a string field
Truthy(data, key) == key \in DOMAIN data /\ data[key] # ""

Remove(f, k) == [x \in DOMAIN f \ {k} |-> f[x]]

\* User.hash_password / User.check_password: a one-way tag on the clear text
hash_password(p) == <<"hash", p>>
check_password(p, stored) == stored = hash_password(p)

\* jsonify(...), status: kind is "msg" for the {"msg": ...} envelope, "json"
\* for a data body, "fault" for an exception that leaves the handler.
Answer(op, caller, arg, status, kind, body) ==
    [op |-> op, caller |-> caller, arg |-> arg, status |-> status,
     kind |-> kind, body |-> body]

Msg(op, caller, arg, status) == Answer(op, caller, arg, status, "msg", {})
Json(op, caller, arg, status, body) == Answer(op, caller, arg, status, "json", body)
\* An exception no handler catches: the framework answers 500 without the envelope.
Fault(op, caller, arg) == Answer(op, caller, arg, 500, "fault", {})

\* the two request workers of the statements about concurrent requests
Workers == {1, 2}
IdleSession == [pc |-> "idle", caller |-> 0, ebook_id |-> 0, loan_id |-> 0,
                seen |-> 0, now |-> 0, status |-> 0]

\* ------------------------------------------------------------------- Init
Init ==
    /\ users = Empty
    /\ ebooks \in [EbookIds -> [available_copies : 0..MaxCopies]]
    /\ loans = Empty
    /\ categories = Empty
    /\ nextUserId = 1
    /\ nextLoanId = 1
    /\ nextCategoryId = 1
    /\ tokens = {}
    /\ resp = Msg("none", 0, 0, 0)
    /\ sessions = [w \in Workers |-> IdleSession]
    /\ ebooks0 = ebooks

\* ------------------------------------------------------ routes/route_user
\* _require_admin of route_user.py answering 403, as the two other modules do,
\* when the caller has no account
require_admin_user_403(caller, user_id) ==
    IF caller \notin DOMAIN users THEN 403
    ELSE IF user_id = 0
         THEN (IF ~users[caller].is_admin THEN 403 ELSE 0)
         ELSE (IF ~(users[caller].is_admin \/ caller = user_id) THEN 403 ELSE 0)

\* _require_admin of route_user.py without the owner's right to the own account
require_admin_user_admin_only(caller, user_id) ==
    IF caller \notin DOMAIN users THEN 404
    ELSE IF ~users[caller].is_admin THEN 403 ELSE 0

\* _require_admin(user_id=None) of route_user.py; 0 is "allowed" (None)
require_admin_user(caller, user_id) ==
    IF caller \notin DOMAIN users THEN 404
    ELSE IF user_id = 0
         THEN (IF ~users[caller].is_admin THEN 403 ELSE 0)
         ELSE (IF ~(users[caller].is_admin \/ caller = user_id) THEN 403 ELSE 0)

UserBodies ==
    { u @@ e @@ p @@ a :
        u \in {Empty} \cup {("username" :> n) : n \in Usernames},
        e \in {Empty} \cup {("email" :> n) : n \in Emails},
        p \in {Empty} \cup {("password" :> n) : n \in Passwords},
        a \in {Empty} \cup {("is_admin" :> b) : b \in BOOLEAN} }

\* bodies of POST /users: those of PUT /users/<id> and one with a blank username
CreateUserBodies ==
    UserBodies \cup { ("username" :> "") @@ ("email" :> e) @@ ("password" :> p) :
                         e \in Emails, p \in Passwords }

EmailTaken(email, except) ==
    \E i \in DOMAIN users \ {except} : users[i].email = email

create_user(data) ==
    /\ IF ~Truthy(data, "username") \/ ~Truthy(data, "email") \/ ~Truthy(data, "password")
       THEN /\ resp' = Msg("createUser", 0, 0, 400)
            /\ UNCHANGED <<users, nextUserId>>
       ELSE IF EmailTaken(data["email"], 0)
       THEN \* unique constraint on email: commit raises IntegrityError
            /\ resp' = Fault("createUser", 0, 0)
            /\ UNCHANGED <<users, nextUserId>>
       ELSE /\ nextUserId <= MaxUsers
            /\ users' = users @@ (nextUserId :>
                           [username |-> data["username"],
                            email |-> data["email"],
                            password |-> hash_password(data["password"]),
                            is_admin |-> Get(data, "is_admin", FALSE)])
            /\ nextUserId' = nextUserId + 1
            /\ resp' = Json("createUser", 0, nextUserId, 201, {nextUserId})
    /\ UNCHANGED <<ebooks, loans, categories, nextLoanId, nextCategoryId, tokens, sessions, ebooks0>>

LoginBodies ==
    { e @@ p :
        e \in {Empty} \cup {("email" :> n) : n \in Emails},
        p \in {Empty} \cup {("password" :> n) : n \in Passwords \cup {"bad"}} }

login(data) ==
    /\ IF ~Truthy(data, "email") \/ ~Truthy(data, "password")
       THEN /\ resp' = Msg("login", 0, 0, 400)
            /\ UNCHANGED tokens
       ELSE LET found == {i \in DOMAIN users : users[i].email = data["email"]}
            IN  IF found # {} /\ check_password(data["password"], users[CHOOSE i \in found : TRUE].password)
                THEN LET id == CHOOSE i \in found : TRUE
                     IN  /\ tokens' = tokens \cup {id}
                         /\ resp' = Json("login", 0, id, 200, {id})
                ELSE /\ resp' = Msg("login", 0, 0, 401)
                     /\ UNCHANGED tokens
    /\ UNCHANGED <<users, ebooks, loans, categories, nextUserId, nextLoanId, nextCategoryId, sessions, ebooks0>>

get_users(caller) ==
    /\ caller \in tokens
    /\ LET err == require_admin_user(caller, 0)
       IN  resp' = IF err # 0 THEN Msg("listUsers", caller, 0, err)
                   ELSE Json("listUsers", caller, 0, 200, DOMAIN users)
    /\ UNCHANGED <<users, ebooks, loans, categories, nextUserId, nextLoanId, nextCategoryId, tokens, sessions, ebooks0>>

get_user(caller, user_id) ==
    /\ caller \in tokens
    /\ LET err == require_admin_user(caller, user_id)
       IN  resp' = IF err # 0 THEN Msg("getUser", caller, user_id, err)
                   ELSE IF user_id \notin DOMAIN users THEN Msg("getUser", caller, user_id, 404)
                   ELSE Json("getUser", caller, user_id, 200, {user_id})
    /\ UNCHANGED <<users, ebooks, loans, categories, nextUserId, nextLoanId, nextCategoryId, tokens, sessions, ebooks0>>

update_user(caller, user_id, data) ==
    /\ caller \in tokens
    /\ LET err == require_admin_user(caller, user_id)
       IN  IF err # 0
           THEN /\ resp' = Msg("updateUser", caller, user_id, err)
                /\ UNCHANGED users
           ELSE IF user_id \notin DOMAIN users
           THEN /\ resp' = Msg("updateUser", caller, user_id, 404)
                /\ UNCHANGED users
           ELSE LET user == users[user_id]
                    new == [username |-> Get(data, "username", user.username),
                            email |-> Get(data, "email", user.email),
                            password |-> IF "password" \in DOMAIN data
                                         THEN hash_password(data["password"])
                                         ELSE user.password,
                            is_admin |-> Get(data, "is_admin", user.is_admin)]
                IN  IF EmailTaken(new.email, user_id)
                    THEN /\ resp' = Fault("updateUser", caller, user_id)
                         /\ UNCHANGED users
                    ELSE /\ users' = [users EXCEPT ![user_id] = new]
                         /\ resp' = Json("updateUser", caller, user_id, 200, {user_id})
    /\ UNCHANGED <<ebooks, loans, categories, nextUserId, nextLoanId, nextCategoryId, tokens, sessions, ebooks0>>

\* What the store does to the loans of a deleted user: it leaves them
\* (cascade = FALSE) or deletes them with the user (cascade = TRUE).
LoansAfterUserDelete(user_id, cascade) ==
    IF cascade
    THEN [l \in {x \in DOMAIN loans : loans[x].user_id # user_id} |-> loans[l]]
    ELSE loans

delete_user(caller, user_id, cascade) ==
    /\ caller \in tokens
    /\ LET err == require_admin_user(caller, user_id)
       IN  IF err # 0
           THEN /\ resp' = Msg("deleteUser", caller, user_id, err)
                /\ UNCHANGED <<users, loans>>
           ELSE IF user_id \notin DOMAIN users
           THEN /\ resp' = Msg("deleteUser", caller, user_id, 404)
                /\ UNCHANGED <<users, loans>>
           ELSE /\ users' = Remove(users, user_id)
                /\ loans' = LoansAfterUserDelete(user_id, cascade)
                /\ resp' = Msg("deleteUser", caller, user_id, 200)
    /\ UNCHANGED <<ebooks, categories, nextUserId, nextLoanId, nextCategoryId, tokens, sessions, ebooks0>>

get_current_user(caller) ==
    /\ caller \in tokens
    /\ resp' = IF caller \notin DOMAIN users THEN Msg("getCurrentUser", caller, 0, 404)
               ELSE Json("getCurrentUser", caller, 0, 200, {caller})
    /\ UNCHANGED <<users, ebooks, loans, categories, nextUserId, nextLoanId, nextCategoryId, tokens, sessions, ebooks0>>

\* -------------------------------------------------- routes/route_category
\* _require_admin() of route_category.py; 0 is "allowed" (None)
require_admin_category(caller) ==
    IF caller \notin DOMAIN users \/ ~users[caller].is_admin THEN 403 ELSE 0

CategoryBodies ==
    { n @@ d :
        n \in {Empty} \cup {("name" :> x) : x \in CategoryNames},
        d \in {Empty} \cup {("description" :> x) : x \in Descriptions} }

create_category(caller, data) ==
    /\ caller \in tokens
    /\ LET err == require_admin_category(caller)
       IN  IF err # 0
           THEN /\ resp' = Msg("createCategory", caller, 0, err)
                /\ UNCHANGED <<categories, nextCategoryId>>
           ELSE IF ~Truthy(data, "name")
           THEN /\ resp' = Msg("createCategory", caller, 0, 400)
                /\ UNCHANGED <<categories, nextCategoryId>>
           ELSE /\ nextCategoryId <= MaxCategories
                /\ categories' = categories @@ (nextCategoryId :>
                       [name |-> data["name"],
                        description |-> Get(data, "description", "")])
                /\ nextCategoryId' = nextCategoryId + 1
                /\ resp' = Json("createCategory", caller, nextCategoryId, 201, {nextCategoryId})
    /\ UNCHANGED <<users, ebooks, loans, nextUserId, nextLoanId, tokens, sessions, ebooks0>>

get_categories ==
    /\ resp' = Json("listCategories", 0, 0, 200, DOMAIN categories)
    /\ UNCHANGED <<users, ebooks, loans, categories, nextUserId, nextLoanId, nextCategoryId, tokens, sessions, ebooks0>>

get_category(category_id) ==
    /\ resp' = IF category_id \notin DOMAIN categories
               THEN Msg("getCategory", 0, category_id, 404)
               ELSE Json("getCategory", 0, category_id, 200, {category_id})
    /\ UNCHANGED <<users, ebooks, loans, categories, nextUserId, nextLoanId, nextCategoryId, tokens, sessions, ebooks0>>

update_category(caller, category_id, data) ==
    /\ caller \in tokens
    /\ LET err == require_admin_category(caller)
       IN  IF err # 0
           THEN /\ resp' = Msg("updateCategory", caller, category_id, err)
                /\ UNCHANGED categories
           ELSE IF category_id \notin DOMAIN categories
           THEN /\ resp' = Msg("updateCategory", caller, category_id, 404)
                /\ UNCHANGED categories
           ELSE LET category == categories[category_id]
                IN  /\ categories' = [categories EXCEPT ![category_id] =
                           [name |-> Get(data, "name", category.name),
                            description |-> Get(data, "description", category.description)]]
                    /\ resp' = Json("updateCategory", caller, category_id, 200, {category_id})
    /\ UNCHANGED <<users, ebooks, loans, nextUserId, nextLoanId, nextCategoryId, tokens, sessions, ebooks0>>

delete_category(caller, category_id) ==
    /\ caller \in tokens
    /\ LET err == require_admin_category(caller)
       IN  IF err # 0
           THEN /\ resp' = Msg("deleteCategory", caller, category_id, err)
                /\ UNCHANGED categories
           ELSE IF category_id \notin DOMAIN categories
           THEN /\ resp' = Msg("deleteCategory", caller, category_id, 404)
                /\ UNCHANGED categories
           ELSE /\ categories' = Remove(categories, category_id)
                /\ resp' = Msg("deleteCategory", caller, category_id, 200)
    /\ UNCHANGED <<users, ebooks, loans, nextUserId, nextLoanId, nextCategoryId, tokens, sessions, ebooks0>>

\* ------------------------------------------------------ routes/route_loan
\* _require_admin() of route_loan.py letting every caller through
require_admin_loan_open(caller) == 0

\* _require_admin() of route_loan.py; 0 is "allowed" (None)
require_admin_loan(caller) ==
    IF caller \notin DOMAIN users \/ ~users[caller].is_admin THEN 403 ELSE 0

\* request bodies of POST /loans: ebook_id absent (0), of a stored ebook, or of none
EbookIdInputs == 0..(MaxEbooks + 1)

\* the check of create_loan, off by one: a loan is refused only below zero
HasCopyOffByOne(available_copies) == ~(available_copies < 0)

\* the check of create_loan: a copy is available
HasCopy(available_copies) == ~(available_copies < 1)

\* a loan that takes no copy from the ebook
DecrementCopiesForgotten(n) == n

\* ebook.available_copies -= 1
DecrementCopies(n) == n - 1

\* a return that hands back two copies
IncrementCopiesTwice(n) == n + 2

\* loan.ebook.available_copies += 1
IncrementCopies(n) == n + 1

create_loan(caller, ebook_id, now) ==
    /\ caller \in tokens
    /\ IF ebook_id = 0
       THEN /\ resp' = Msg("createLoan", caller, ebook_id, 400)
            /\ UNCHANGED <<ebooks, loans, nextLoanId>>
       ELSE IF ebook_id \notin DOMAIN ebooks
       THEN /\ resp' = Msg("createLoan", caller, ebook_id, 404)
            /\ UNCHANGED <<ebooks, loans, nextLoanId>>
       ELSE IF ~HasCopy(ebooks[ebook_id].available_copies)
       THEN /\ resp' = Msg("createLoan", caller, ebook_id, 400)
            /\ UNCHANGED <<ebooks, loans, nextLoanId>>
       ELSE /\ nextLoanId <= MaxLoans
            /\ ebooks' = [ebooks EXCEPT ![ebook_id].available_copies = DecrementCopies(@)]
            /\ loans' = loans @@ (nextLoanId :>
                   [user_id |-> caller,
                    ebook_id |-> ebook_id,
                    loan_date |-> now,
                    due_date |-> now + LoanPeriodDays,
                    return_date |-> 0,
                    is_returned |-> FALSE])
            /\ nextLoanId' = nextLoanId + 1
            /\ resp' = Json("createLoan", caller, ebook_id, 201, {nextLoanId})
    /\ UNCHANGED <<users, categories, nextUserId, nextCategoryId, tokens, sessions, ebooks0>>

\* get_loans without the filter on the caller
VisibleLoansUnfiltered(caller) == DOMAIN loans

\* the rows get_loans selects for a resolved caller
VisibleLoans(caller) ==
    IF users[caller].is_admin
    THEN DOMAIN loans
    ELSE {l \in DOMAIN loans : loans[l].user_id = caller}

get_loans(caller) ==
    /\ caller \in tokens
    /\ resp' = IF caller \notin DOMAIN users
               THEN \* user is None: user.is_admin raises AttributeError
                    Fault("listLoans", caller, 0)
               ELSE Json("listLoans", caller, 0, 200, VisibleLoans(caller))
    /\ UNCHANGED <<users, ebooks, loans, categories, nextUserId, nextLoanId, nextCategoryId, tokens, sessions, ebooks0>>

get_loan(caller, loan_id) ==
    /\ caller \in tokens
    /\ resp' = IF loan_id \notin DOMAIN loans
               THEN Msg("getLoan", caller, loan_id, 404)
               ELSE IF caller \notin DOMAIN users
               THEN Fault("getLoan", caller, loan_id)
               ELSE IF ~users[caller].is_admin /\ loans[loan_id].user_id # caller
               THEN Msg("getLoan", caller, loan_id, 403)
               ELSE Json("getLoan", caller, loan_id, 200, {loan_id})
    /\ UNCHANGED <<users, ebooks, loans, categories, nextUserId, nextLoanId, nextCategoryId, tokens, sessions, ebooks0>>

\* the ownership check of update_loan, letting an admin through as well
IsOwnerOrAdmin(loan, caller) ==
    \/ ~(loan.user_id # caller)
    \/ (caller \in DOMAIN users /\ users[caller].is_admin)

\* the ownership check of update_loan
IsOwner(loan, caller) == ~(loan.user_id # caller)

\* update_loan without the already-returned check
AlreadyReturnedIgnored(loan) == FALSE

\* the already-returned check of update_loan
AlreadyReturned(loan) == loan.is_returned

update_loan(caller, loan_id, now) ==
    /\ caller \in tokens
    /\ IF loan_id \notin DOMAIN loans
       THEN /\ resp' = Msg("returnLoan", caller, loan_id, 404)
            /\ UNCHANGED <<ebooks, loans>>
       ELSE IF ~IsOwner(loans[loan_id], caller)
       THEN /\ resp' = Msg("returnLoan", caller, loan_id, 403)
            /\ UNCHANGED <<ebooks, loans>>
       ELSE IF AlreadyReturned(loans[loan_id])
       THEN /\ resp' = Msg("returnLoan", caller, loan_id, 400)
            /\ UNCHANGED <<ebooks, loans>>
       ELSE /\ loans' = [loans EXCEPT ![loan_id].is_returned = TRUE,
                                      ![loan_id].return_date = now]
            /\ ebooks' = [ebooks EXCEPT ![loans[loan_id].ebook_id].available_copies = IncrementCopies(@)]
            /\ resp' = Json("returnLoan", caller, loan_id, 200, {loan_id})
    /\ UNCHANGED <<users, categories, nextUserId, nextLoanId, nextCategoryId, tokens, sessions, ebooks0>>

get_user_loans(caller, user_id) ==
    /\ caller \in tokens
    /\ resp' = IF caller \notin DOMAIN users
               THEN Fault("listUserLoans", caller, user_id)
               ELSE IF ~users[caller].is_admin /\ caller # user_id
               THEN Msg("listUserLoans", caller, user_id, 403)
               ELSE Json("listUserLoans", caller, user_id, 200,
                         {l \in DOMAIN loans : loans[l].user_id = user_id})
    /\ UNCHANGED <<users, ebooks, loans, categories, nextUserId, nextLoanId, nextCategoryId, tokens, sessions, ebooks0>>

delete_loan(caller, loan_id) ==
    /\ caller \in tokens
    /\ LET err == require_admin_loan(caller)
       IN  IF err # 0
           THEN /\ resp' = Msg("deleteLoan", caller, loan_id, err)
                /\ UNCHANGED loans
           ELSE IF loan_id \notin DOMAIN loans
           THEN /\ resp' = Msg("deleteLoan", caller, loan_id, 404)
                /\ UNCHANGED loans
           ELSE /\ loans' = Remove(loans, loan_id)
                /\ resp' = Msg("deleteLoan", caller, loan_id, 200)
    /\ UNCHANGED <<users, ebooks, categories, nextUserId, nextLoanId, nextCategoryId, tokens, sessions, ebooks0>>

\* --------------------------------------- create_loan, one store access a step
\* create_loan up to the commit: the SELECT of the ebook row, the check on the
\* value read and the decrement of the attribute held in the session.
begin_create_loan(w, caller, ebook_id, now) ==
    /\ caller \in tokens
    /\ sessions[w].pc = "idle"
    /\ LET s == [IdleSession EXCEPT !.caller = caller, !.ebook_id = ebook_id, !.now = now]
       IN  IF ebook_id = 0
           THEN /\ sessions' = [sessions EXCEPT ![w] = [s EXCEPT !.pc = "done", !.status = 400]]
                /\ resp' = Msg("createLoan", caller, ebook_id, 400)
           ELSE IF ebook_id \notin DOMAIN ebooks
           THEN /\ sessions' = [sessions EXCEPT ![w] = [s EXCEPT !.pc = "done", !.status = 404]]
                /\ resp' = Msg("createLoan", caller, ebook_id, 404)
           ELSE IF ~HasCopy(ebooks[ebook_id].available_copies)
           THEN /\ sessions' = [sessions EXCEPT ![w] =
                       [s EXCEPT !.pc = "done", !.status = 400,
                                 !.seen = ebooks[ebook_id].available_copies]]
                /\ resp' = Msg("createLoan", caller, ebook_id, 400)
           ELSE /\ sessions' = [sessions EXCEPT ![w] =
                       [s EXCEPT !.pc = "dirty",
                                 !.seen = ebooks[ebook_id].available_copies]]
                /\ UNCHANGED resp
    /\ UNCHANGED <<users, ebooks, loans, categories, nextUserId, nextLoanId,
                   nextCategoryId, tokens, ebooks0>>

\* db.session.add(new_loan); db.session.commit(): the flush writes the value the
\* session holds (the value read, less one) to the ebook row and inserts the loan.
commit_create_loan(w) ==
    /\ sessions[w].pc = "dirty"
    /\ nextLoanId <= MaxLoans
    /\ LET s == sessions[w]
       IN  /\ ebooks' = [ebooks EXCEPT ![s.ebook_id].available_copies = DecrementCopies(s.seen)]
           /\ loans' = loans @@ (nextLoanId :>
                  [user_id |-> s.caller,
                   ebook_id |-> s.ebook_id,
                   loan_date |-> s.now,
                   due_date |-> s.now + LoanPeriodDays,
                   return_date |-> 0,
                   is_returned |-> FALSE])
           /\ nextLoanId' = nextLoanId + 1
           /\ sessions' = [sessions EXCEPT ![w].pc = "done", ![w].status = 201]
           /\ resp' = Json("createLoan", s.caller, s.ebook_id, 201, {nextLoanId})
    /\ UNCHANGED <<users, categories, nextUserId, nextCategoryId, tokens, ebooks0>>

\* --------------------------------------- update_loan, one store access a step
\* update_loan up to the write of the loan's attributes: the SELECT of the loan
\* row and the checks on the row read.
begin_update_loan(w, caller, loan_id, now) ==
    /\ caller \in tokens
    /\ sessions[w].pc = "idle"
    /\ LET s == [IdleSession EXCEPT !.caller = caller, !.loan_id = loan_id, !.now = now]
       IN  IF loan_id \notin DOMAIN loans
           THEN /\ sessions' = [sessions EXCEPT ![w] = [s EXCEPT !.pc = "done", !.status = 404]]
                /\ resp' = Msg("returnLoan", caller, loan_id, 404)
           ELSE IF ~IsOwner(loans[loan_id], caller)
           THEN /\ sessions' = [sessions EXCEPT ![w] = [s EXCEPT !.pc = "done", !.status = 403]]
                /\ resp' = Msg("returnLoan", caller, loan_id, 403)
           ELSE IF AlreadyReturned(loans[loan_id])
           THEN /\ sessions' = [sessions EXCEPT ![w] = [s EXCEPT !.pc = "done", !.status = 400]]
                /\ resp' = Msg("returnLoan", caller, loan_id, 400)
           ELSE /\ sessions' = [sessions EXCEPT ![w] =
                       [s EXCEPT !.pc = "loan_loaded",
                                 !.ebook_id = loans[loan_id].ebook_id]]
                /\ UNCHANGED resp
    /\ UNCHANGED <<users, ebooks, loans, categories, nextUserId, nextLoanId,
                   nextCategoryId, tokens, ebooks0>>

\* loan.ebook.available_copies += 1: the SELECT of the loan's ebook row and the
\* increment of the attribute held in the session.
load_update_loan(w) ==
    /\ sessions[w].pc = "loan_loaded"
    /\ sessions' = [sessions EXCEPT
           ![w].pc = "ebook_loaded",
           ![w].seen = ebooks[sessions[w].ebook_id].available_copies]
    /\ UNCHANGED <<users, ebooks, loans, categories, nextUserId, nextLoanId,
                   nextCategoryId, tokens, resp, ebooks0>>

\* db.session.commit(): the flush writes is_returned and return_date to the loan
\* row and the value the session holds (the value read, plus one) to the ebook row.
commit_update_loan(w) ==
    /\ sessions[w].pc = "ebook_loaded"
    /\ LET s == sessions[w]
       IN  IF s.loan_id \notin DOMAIN loans
           THEN \* the row is gone: the UPDATE matches nothing, StaleDataError
                /\ sessions' = [sessions EXCEPT ![w].pc = "done", ![w].status = 500]
                /\ resp' = Fault("returnLoan", s.caller, s.loan_id)
                /\ UNCHANGED <<loans, ebooks>>
           ELSE /\ loans' = [loans EXCEPT ![s.loan_id].is_returned = TRUE,
                                          ![s.loan_id].return_date = s.now]
                /\ ebooks' = [ebooks EXCEPT
                       ![s.ebook_id].available_copies = IncrementCopies(s.seen)]
                /\ sessions' = [sessions EXCEPT ![w].pc = "done", ![w].status = 200]
                /\ resp' = Json("returnLoan", s.caller, s.loan_id, 200, {s.loan_id})
    /\ UNCHANGED <<users, categories, nextUserId, nextLoanId, nextCategoryId,
                   tokens, ebooks0>>

\* ------------------------------------------------------- the specification
Next ==
    \/ \E data \in CreateUserBodies : create_user(data)
    \/ \E data \in LoginBodies : login(data)
    \/ \E c \in UserIds : get_users(c)
    \/ \E c \in UserIds, u \in UserIds : get_user(c, u)
    \/ \E c \in UserIds, u \in UserIds, data \in UserBodies : update_user(c, u, data)
    \/ \E c \in UserIds, u \in UserIds, cascade \in BOOLEAN : delete_user(c, u, cascade)
    \/ \E c \in UserIds : get_current_user(c)
    \/ \E c \in UserIds, data \in CategoryBodies : create_category(c, data)
    \/ get_categories
    \/ \E k \in CategoryIds : get_category(k)
    \/ \E c \in UserIds, k \in CategoryIds, data \in CategoryBodies : update_category(c, k, data)
    \/ \E c \in UserIds, k \in CategoryIds : delete_category(c, k)
    \/ \E c \in UserIds, e \in EbookIdInputs, now \in Times : create_loan(c, e, now)
    \/ \E c \in UserIds : get_loans(c)
    \/ \E c \in UserIds, l \in LoanIds : get_loan(c, l)
    \/ \E c \in UserIds, l \in LoanIds, now \in Times : update_loan(c, l, now)
    \/ \E c \in UserIds, u \in UserIds : get_user_loans(c, u)
    \/ \E c \in UserIds, l \in LoanIds : delete_loan(c, l)

Spec == Init /\ [][Next]_vars

\* The loan handlers over a store already holding accounts: every identity has
\* logged in once, and an identity absent from users is an account that
\* delete_user has since removed.
SeededUsers ==
    UNION { [S -> [username : Usernames,
                   email : Emails,
                   password : {hash_password(p) : p \in Passwords},
                   is_admin : BOOLEAN]] : S \in SUBSET UserIds }

InitLoan ==
    /\ users \in {u \in SeededUsers : \A i \in DOMAIN u : u[i].email = EmailPool[i]}
    /\ ebooks \in [EbookIds -> [available_copies : 0..MaxCopies]]
    /\ loans = Empty
    /\ categories = Empty
    /\ nextUserId = MaxUsers + 1
    /\ nextLoanId = 1
    /\ nextCategoryId = 1
    /\ tokens = UserIds
    /\ resp = Msg("none", 0, 0, 0)
    /\ sessions = [w \in Workers |-> IdleSession]
    /\ ebooks0 = ebooks

NextLoan ==
    \/ \E c \in UserIds, e \in EbookIdInputs, now \in Times : create_loan(c, e, now)
    \/ \E c \in UserIds : get_loans(c)
    \/ \E c \in UserIds, l \in LoanIds : get_loan(c, l)
    \/ \E c \in UserIds, l \in LoanIds, now \in Times : update_loan(c, l, now)
    \/ \E c \in UserIds, u \in UserIds : get_user_loans(c, u)
    \/ \E c \in UserIds, l \in LoanIds : delete_loan(c, l)

SpecLoan == InitLoan /\ [][NextLoan]_vars

\* The account and category handlers from the empty store, with the loan
\* handlers that read the caller's account.
NextAccount ==
    \/ \E data \in CreateUserBodies : create_user(data)
    \/ \E data \in LoginBodies : login(data)
    \/ \E c \in UserIds : get_users(c)
    \/ \E c \in UserIds, u \in UserIds : get_user(c, u)
    \/ \E c \in UserIds, u \in UserIds, data \in UserBodies : update_user(c, u, data)
    \/ \E c \in UserIds, u \in UserIds, cascade \in BOOLEAN : delete_user(c, u, cascade)
    \/ \E c \in UserIds : get_current_user(c)
    \/ \E c \in UserIds, data \in CategoryBodies : create_category(c, data)
    \/ get_categories
    \/ \E k \in CategoryIds : get_category(k)
    \/ \E c \in UserIds, k \in CategoryIds, data \in CategoryBodies : update_category(c, k, data)
    \/ \E c \in UserIds, k \in CategoryIds : delete_category(c, k)
    \/ \E c \in UserIds : get_loans(c)
    \/ \E c \in UserIds, l \in LoanIds : get_loan(c, l)
    \/ \E c \in UserIds, u \in UserIds : get_user_loans(c, u)
    \/ \E c \in UserIds, l \in LoanIds : delete_loan(c, l)

SpecAccount == Init /\ [][NextAccount]_vars

\* Two workers, each serving one POST /loans, their store accesses interleaved.
NextRace ==
    \/ \E w \in Workers, c \in UserIds, e \in EbookIdInputs, now \in Times :
           begin_create_loan(w, c, e, now)
    \/ \E w \in Workers : commit_create_loan(w)

SpecRace == InitLoan /\ [][NextRace]_vars

\* Two workers, each serving one PUT /loans/<id>, their store accesses
\* interleaved, over a store that already holds loans made by the accounts.
SeededLoans ==
    UNION { [1..k -> { r \in [user_id : UserIds, ebook_id : EbookIds,
                              loan_date : Times,
                              due_date : {t + LoanPeriodDays : t \in Times},
                              return_date : {0} \cup Times,
                              is_returned : BOOLEAN] :
                         /\ r.due_date = r.loan_date + LoanPeriodDays
                         /\ r.is_returned = (r.return_date # 0) }]
            : k \in 0..MaxLoans }

InitReturnRace ==
    /\ users \in {u \in SeededUsers : \A i \in DOMAIN u : u[i].email = EmailPool[i]}
    /\ ebooks \in [EbookIds -> [available_copies : 0..MaxCopies]]
    /\ loans \in SeededLoans
    /\ categories = Empty
    /\ nextUserId = MaxUsers + 1
    /\ nextLoanId = Cardinality(DOMAIN loans) + 1
    /\ nextCategoryId = 1
    /\ tokens = UserIds
    /\ resp = Msg("none", 0, 0, 0)
    /\ sessions = [w \in Workers |-> IdleSession]
    /\ ebooks0 = ebooks

NextReturnRace ==
    \/ \E w \in Workers, c \in UserIds, l \in LoanIds, now \in Times :
           begin_update_loan(w, c, l, now)
    \/ \E w \in Workers : load_update_loan(w)
    \/ \E w \in Workers : commit_update_loan(w)

SpecReturnRace == InitReturnRace /\ [][NextReturnRace]_vars

\* N sequential cycles on one ebook: one user borrows it and returns that loan
\* before borrowing again, and no other request runs in between.
ActiveLoans == {l \in DOMAIN loans : ~loans[l].is_returned}

cycle_create_loan(c, e, now) ==
    /\ ActiveLoans = {}
    /\ e \in DOMAIN ebooks
    /\ \A l \in DOMAIN loans : loans[l].user_id = c /\ loans[l].ebook_id = e
    /\ create_loan(c, e, now)

cycle_update_loan(l, now) ==
    /\ l \in ActiveLoans
    /\ update_loan(loans[l].user_id, l, now)

NextCycle ==
    \/ \E c \in UserIds, e \in EbookIds, now \in Times : cycle_create_loan(c, e, now)
    \/ \E l \in LoanIds, now \in Times : cycle_update_loan(l, now)

SpecCycle == InitLoan /\ [][NextCycle]_vars

\* Accounts none of which is an admin, with the handlers by which a caller can
\* change an account and those that ask for an admin.
InitEscalate ==
    /\ InitLoan
    /\ \A i \in DOMAIN users : ~users[i].is_admin

NextEscalate ==
    \/ \E c \in UserIds, u \in UserIds, data \in UserBodies : update_user(c, u, data)
    \/ \E c \in UserIds : get_users(c)
    \/ \E c \in UserIds, u \in UserIds : get_user(c, u)
    \/ \E c \in UserIds, data \in CategoryBodies : create_category(c, data)
    \/ \E c \in UserIds, l \in LoanIds : delete_loan(c, l)

SpecEscalate == InitEscalate /\ [][NextEscalate]_vars

\* =================================================================== claims

\* C1: every ebook's available_copies is >= 0 before and after every request,
\* and a createLoan on an ebook whose available_copies is 0 answers 400,
\* leaves available_copies as it was and inserts no loan.
C1_CopiesNeverNegative ==
    [][ /\ \A e \in DOMAIN ebooks : ebooks[e].available_copies >= 0
        /\ \A e \in DOMAIN ebooks' : ebooks'[e].available_copies >= 0
        /\ \A e \in DOMAIN ebooks :
              (resp'.op = "createLoan" /\ resp'.arg = e
                 /\ ebooks[e].available_copies = 0)
              => (resp'.status = 400 /\ ebooks' = ebooks /\ loans' = loans) ]_vars

\* C1 witness: a createLoan was refused with 400 on an ebook whose copies
\* earlier loans have used up.
C1_Witness ==
    /\ resp.op = "createLoan" /\ resp.status = 400
    /\ resp.arg \in DOMAIN ebooks
    /\ ebooks[resp.arg].available_copies = 0
    /\ ebooks0[resp.arg].available_copies > 0
    /\ \E l \in DOMAIN loans : loans[l].ebook_id = resp.arg

\* C2 (as claimed): when both workers have answered a createLoan on the same
\* ebook that had one copy, exactly one answered 201 and the other 400, exactly
\* one loan was inserted and available_copies is 0.
C2_OneOfTwoCheckoutsWins ==
    \A e \in DOMAIN ebooks :
        (/\ ebooks0[e].available_copies = 1
         /\ \A w \in Workers : sessions[w].pc = "done" /\ sessions[w].ebook_id = e)
        => /\ Cardinality({w \in Workers : sessions[w].status = 201}) = 1
           /\ Cardinality({w \in Workers : sessions[w].status = 400}) = 1
           /\ Cardinality({l \in DOMAIN loans : loans[l].ebook_id = e}) = 1
           /\ ebooks[e].available_copies = 0

\* C3: a returned loan stays returned with its return_date; a returnLoan by the
\* owner on an active loan answers 200, sets is_returned and adds exactly one
\* copy to the loan's ebook; on a returned loan it answers 400 and changes
\* neither the loans nor the ebooks.
C3_ReturnedOnce ==
    [][ \A l \in DOMAIN loans :
          /\ (loans[l].is_returned /\ l \in DOMAIN loans')
                => (loans'[l].is_returned
                      /\ loans'[l].return_date = loans[l].return_date)
          /\ (resp'.op = "returnLoan" /\ resp'.arg = l
                 /\ resp'.caller = loans[l].user_id)
                => IF ~loans[l].is_returned
                   THEN /\ resp'.status = 200
                        /\ loans'[l].is_returned
                        /\ ebooks' = [ebooks EXCEPT
                              ![loans[l].ebook_id].available_copies = @ + 1]
                   ELSE /\ resp'.status = 400
                        /\ loans' = loans
                        /\ ebooks' = ebooks ]_vars

\* C3 witness: the owner's second returnLoan on a returned loan was answered 400.
C3_Witness ==
    /\ resp.op = "returnLoan" /\ resp.status = 400
    /\ resp.arg \in DOMAIN loans
    /\ loans[resp.arg].is_returned
    /\ loans[resp.arg].user_id = resp.caller

\* C4: whenever the cycles so far are complete (no loan is active), every
\* ebook's available_copies equals its value before the first cycle.
C4_CyclesKeepCopies ==
    ActiveLoans = {} => \A e \in DOMAIN ebooks :
        ebooks[e].available_copies = ebooks0[e].available_copies

\* C4 witness: MaxLoans (at least two) complete cycles have run on one ebook.
C4_Witness ==
    /\ ActiveLoans = {}
    /\ Cardinality(DOMAIN loans) = MaxLoans
    /\ MaxLoans >= 2
    /\ resp.op = "returnLoan" /\ resp.status = 200

\* C5: listLoans by a caller with an account answers 200 with, for a non-admin,
\* exactly the loans whose user_id is the caller and, for an admin, every loan.
C5_ListLoansScoped ==
    (resp.op = "listLoans" /\ resp.caller \in DOMAIN users)
    => /\ resp.status = 200
       /\ resp.kind = "json"
       /\ IF users[resp.caller].is_admin
          THEN resp.body = DOMAIN loans
          ELSE /\ \A l \in resp.body : loans[l].user_id = resp.caller
               /\ \A l \in DOMAIN loans :
                     loans[l].user_id = resp.caller => l \in resp.body

\* C5 witness: a non-admin listed the loans while the store held a loan of
\* theirs and a loan of another user.
C5_Witness ==
    /\ resp.op = "listLoans" /\ resp.status = 200
    /\ resp.caller \in DOMAIN users
    /\ ~users[resp.caller].is_admin
    /\ resp.body # {}
    /\ \E l \in DOMAIN loans : loans[l].user_id # resp.caller

\* C6 (as claimed, for the case it names): a request whose bearer token names
\* an account that delete_user has removed ends in a defined status code with
\* a JSON answer, never in an unhandled fault.
DefinedStatus == {200, 201, 400, 401, 403, 404}

C6_RemovedCallerAnswered ==
    (resp.caller \in tokens /\ resp.caller \notin DOMAIN users)
    => (resp.kind # "fault" /\ resp.status \in DefinedStatus)

\* the operations that ask for the owner of the account or an admin
OwnerOrAdminOps == {"getUser", "updateUser", "deleteUser"}
\* the operations of the category and loan routes that ask for an admin
AdminOnlyOps == {"createCategory", "updateCategory", "deleteCategory", "deleteLoan"}

\* C7 (as claimed): when the caller has no account, getUser, updateUser and
\* deleteUser answer 404, and listUsers, createCategory, updateCategory,
\* deleteCategory and deleteLoan answer 403.
C7_MissingCallerAsClaimed ==
    [][ resp'.caller \notin DOMAIN users
        => /\ resp'.op \in OwnerOrAdminOps => resp'.status = 404
           /\ resp'.op \in AdminOnlyOps \cup {"listUsers"} => resp'.status = 403 ]_vars

\* C7 (amended): when the caller has no account, getUser, updateUser,
\* deleteUser and listUsers answer 404, and createCategory, updateCategory,
\* deleteCategory and deleteLoan answer 403; none of them changes the store.
C7_MissingCaller ==
    [][ resp'.caller \notin DOMAIN users
        => /\ resp'.op \in OwnerOrAdminOps \cup {"listUsers"}
                => (resp'.status = 404 /\ resp'.kind = "msg")
           /\ resp'.op \in AdminOnlyOps
                => (resp'.status = 403 /\ resp'.kind = "msg")
           /\ resp'.op \in OwnerOrAdminOps \cup AdminOnlyOps \cup {"listUsers"}
                => UNCHANGED <<users, categories, loans, ebooks>> ]_vars

\* C7 witness: listUsers by a caller whose account was removed answered 404.
C7_Witness ==
    /\ resp.op = "listUsers" /\ resp.status = 404
    /\ resp.caller \in tokens
    /\ resp.caller \notin DOMAIN users

\* C8: a returnLoan on a stored loan by anyone but its owner answers 403 and
\* changes neither the loans nor the ebooks; a loan becomes returned only in a
\* returnLoan request of its owner.
C8_OnlyOwnerReturns ==
    [][ \A l \in DOMAIN loans :
          /\ (resp'.op = "returnLoan" /\ resp'.arg = l
                 /\ resp'.caller # loans[l].user_id)
                => (resp'.status = 403 /\ loans' = loans /\ ebooks' = ebooks)
          /\ (l \in DOMAIN loans' /\ ~loans[l].is_returned /\ loans'[l].is_returned)
                => (resp'.op = "returnLoan" /\ resp'.arg = l
                      /\ resp'.caller = loans[l].user_id) ]_vars

\* C8 witness: an admin who does not own an active loan was answered 403.
C8_Witness ==
    /\ resp.op = "returnLoan" /\ resp.status = 403
    /\ resp.arg \in DOMAIN loans
    /\ ~loans[resp.arg].is_returned
    /\ resp.caller \in DOMAIN users
    /\ users[resp.caller].is_admin
    /\ loans[resp.arg].user_id # resp.caller

IsAdmin(c) == c \in DOMAIN users /\ users[c].is_admin

\* C9: a deleteLoan never changes the ebooks; by an admin on a stored loan it
\* answers 200, removes that loan and keeps every other loan, account and
\* category; by anyone else it answers 403 and removes nothing.
C9_DeleteKeepsCopies ==
    [][ resp'.op = "deleteLoan"
        => /\ ebooks' = ebooks
           /\ UNCHANGED <<users, categories>>
           /\ (IsAdmin(resp'.caller) /\ resp'.arg \in DOMAIN loans)
                => /\ resp'.status = 200
                   /\ DOMAIN loans' = DOMAIN loans \ {resp'.arg}
                   /\ \A l \in DOMAIN loans' : loans'[l] = loans[l]
           /\ ~IsAdmin(resp'.caller)
                => (resp'.status = 403 /\ loans' = loans) ]_vars

\* C9 witness: an admin deleted an active loan, and the copy it held is still
\* missing from available_copies.
C9_Witness ==
    /\ resp.op = "deleteLoan" /\ resp.status = 200
    /\ \E e \in DOMAIN ebooks :
          ebooks[e].available_copies
            + Cardinality({l \in ActiveLoans : loans[l].ebook_id = e})
          < ebooks0[e].available_copies

UserFields == {"username", "email", "password", "is_admin"}

\* C10: an updateUser by a non-admin on the own id with the body
\* {is_admin: true} answers 200 and makes the caller an admin; on another id it
\* answers 403 and changes no account; an accepted update keeps every field
\* the body omits; and a caller who is an admin is never refused by listUsers,
\* createCategory or deleteLoan for want of the admin right.
C10_SelfPromotion ==
    [][ /\ \A c \in UserIds, u \in UserIds, data \in UserBodies :
              (/\ resp'.op = "updateUser" /\ resp'.caller = c /\ resp'.arg = u
               /\ c \in DOMAIN users /\ ~users[c].is_admin
               /\ update_user(c, u, data))
              => IF u = c
                 THEN /\ data = ("is_admin" :> TRUE)
                         => (resp'.status = 200 /\ users'[c].is_admin)
                      /\ resp'.status = 200
                         => \A k \in UserFields \ DOMAIN data :
                               users'[c][k] = users[c][k]
                 ELSE resp'.status = 403 /\ users' = users
        /\ (resp'.op \in {"listUsers", "createCategory", "deleteLoan"}
               /\ IsAdmin(resp'.caller))
              => resp'.status # 403 ]_vars

\* C10 witness: listUsers answered 200; no account was an admin at the start,
\* so the caller became one through updateUser.
C10_Witness ==
    /\ resp.op = "listUsers" /\ resp.status = 200
    /\ IsAdmin(resp.caller)

\* available_copies of ebook e plus its stored loans that are not returned,
\* over the tables es and ls
CopiesAndActive(es, ls, e) ==
    es[e].available_copies
      + Cardinality({l \in DOMAIN ls : ls[l].ebook_id = e /\ ~ls[l].is_returned})

\* the step is a deleteLoan that removed a loan of ebook e that was not returned
DeletedActiveLoan(e) ==
    /\ resp'.op = "deleteLoan" /\ resp'.status = 200
    /\ resp'.arg \in DOMAIN loans
    /\ resp'.arg \notin DOMAIN loans'
    /\ loans[resp'.arg].ebook_id = e
    /\ ~loans[resp'.arg].is_returned

\* C11: over sequentially executed loan requests, for every ebook the sum of
\* available_copies and its stored loans with is_returned = false is kept by
\* every request (so it stays at its initial value) except a deleteLoan of a
\* loan with is_returned = false, which lowers it by exactly 1.
C11_CopiesPlusActiveLoans ==
    [][ \A e \in DOMAIN ebooks :
          /\ CopiesAndActive(ebooks', loans', e)
               = CopiesAndActive(ebooks, loans, e)
                   - (IF DeletedActiveLoan(e) THEN 1 ELSE 0)
          /\ (CopiesAndActive(ebooks, loans, e) = ebooks0[e].available_copies
                 /\ ~DeletedActiveLoan(e))
               => CopiesAndActive(ebooks', loans', e) = ebooks0[e].available_copies ]_vars

\* C11 witness: on one ebook a loan was made and returned, a second loan was
\* made and deleted while not returned, and the sum is the initial value less 1.
C11_Witness ==
    /\ resp.op = "deleteLoan" /\ resp.status = 200
    /\ \E e \in DOMAIN ebooks :
          /\ CopiesAndActive(ebooks, loans, e) = ebooks0[e].available_copies - 1
          /\ \E l \in DOMAIN loans : loans[l].ebook_id = e /\ loans[l].is_returned

\* C12 (as claimed): when both workers have answered a returnLoan by the owner
\* on the same loan, which was active when the first of them read it, the
\* ebook's available_copies is one more than before and at most one of the two
\* answered 200.
C12_OneOfTwoReturnsCounts ==
    \A l \in DOMAIN loans :
        (/\ \A w \in Workers :
               /\ sessions[w].pc = "done"
               /\ sessions[w].loan_id = l
               /\ sessions[w].caller = loans[l].user_id
         /\ \E w \in Workers : sessions[w].status = 200)
        => /\ ebooks[loans[l].ebook_id].available_copies
                = ebooks0[loans[l].ebook_id].available_copies + 1
           /\ Cardinality({w \in Workers : sessions[w].status = 200}) <= 1

====
